---- MODULE Spec2Model ----
(***************************************************************************)
(* Model of the digest crate's buffering adapter (CoreWrapper) and of the  *)
(* Digest facade built on top of it.                                       *)
(*                                                                         *)
(* The adapter is generic over a block core and owns a BlockBuffer.  The   *)
(* core is modelled as the free (history recording) chaining core: its     *)
(* state is the sequence of blocks it has compressed, so two digests are   *)
(* equal exactly when the core was given the same blocks and the same      *)
(* padded tail.  Every concrete core is an image of this one.              *)
(***************************************************************************)
EXTENDS Integers, Sequences, FiniteSets, TLC

\* ---------------------------------------------------------------- bounds
BlockLen == 2
NumBytes == 2
MaxMsgLen == 5
MaxInputLen == 4
MaxRead == 2

Byte == 0 .. (NumBytes - 1)

\* the two adapter implementations of the repository
Impl == {"core_api", "wrapper"}

\* ------------------------------------------------------- helper: sequences
RECURSIVE SeqsUpTo(_)
SeqsUpTo(n) ==
    IF n = 0 THEN {<<>>}
    ELSE LET S == SeqsUpTo(n - 1)
         IN  S \cup {Append(s, b) : s \in {t \in S : Len(t) = n - 1}, b \in Byte}

Inputs == SeqsUpTo(MaxInputLen)

Take(s, n) == SubSeq(s, 1, n)
Drop(s, n) == SubSeq(s, n + 1, Len(s))

RECURSIVE Flatten(_)
Flatten(ss) == IF ss = <<>> THEN <<>> ELSE Head(ss) \o Flatten(Tail(ss))

\* a call made on the core or the buffer: obj is the adapter it is made on
Call(obj, fn, blocks) == [obj |-> obj, fn |-> fn, blocks |-> blocks]

\* ------------------------------------------------------------ block core
\* byte that opens the padding of the final block
PadByte == 128

Core_default == [h |-> <<>>, dirty |-> FALSE]

\* UpdateCore::update_blocks: absorb each block in order
update_blocks(core, blocks) == [core EXCEPT !.h = @ \o blocks]

\* Reset::reset of the core: exact construction-time state
Core_reset(core) == Core_default

\* ----------------------------------------------------------- BlockBuffer
\* the buffer is the sequence of bytes it holds (its length is `pos`)
Buffer_default == <<>>

Buffer_reset(buffer) == Buffer_default

\* slice::chunks_exact: the whole blocks of s
RECURSIVE chunks_exact(_)
chunks_exact(s) ==
    IF Len(s) < BlockLen THEN <<>>
    ELSE <<Take(s, BlockLen)>> \o chunks_exact(Drop(s, BlockLen))

\* chunks_exact(..).remainder()
remainder(s) == Drop(s, (Len(s) \div BlockLen) * BlockLen)

\* BlockBuffer::input_blocks: the new buffer and the arguments of the
\* successive calls of the block consumer f
input_blocks(buffer, input) ==
    LET r == BlockLen - Len(buffer)
    IN  IF Len(input) < r
        THEN [buffer |-> buffer \o input, fcalls |-> <<>>]
        ELSE LET first == IF Len(buffer) # 0
                          THEN <<<<buffer \o Take(input, r)>>>>
                          ELSE <<>>
                 rest  == IF Len(buffer) # 0 THEN Drop(input, r) ELSE input
             IN  [buffer |-> remainder(rest),
                  fcalls |-> first \o <<chunks_exact(rest)>>]

\* the padded final block made of the buffered tail
pad_final(buffer) == buffer \o <<PadByte>>

\* FixedOutputCore::finalize_fixed_core: compress the padded tail, write the
\* digest, leave the core dirty and the buffer drained
finalize_fixed_core(core, buffer) ==
    LET h == Append(core.h, pad_final(buffer))
    IN  [core |-> [h |-> h, dirty |-> TRUE], buffer |-> <<>>, out |-> h]

\* ExtendableOutputCore::finalize_xof_core: same, returning a reader that
\* owns a copy of the final state
finalize_xof_core(core, buffer) ==
    LET h == Append(core.h, pad_final(buffer))
    IN  [core |-> [h |-> h, dirty |-> TRUE], buffer |-> <<>>,
         reader |-> [state |-> h, pos |-> 0]]

\* the dirty-core flavour used by wrapper.rs
finalize_into_dirty_core(core, buffer) ==
    LET h == Append(core.h, pad_final(buffer))
    IN  [core |-> [h |-> h, dirty |-> TRUE], buffer |-> <<>>, out |-> h]

finalize_xof_dirty_core(core, buffer) ==
    LET h == Append(core.h, pad_final(buffer))
    IN  [core |-> [h |-> h, dirty |-> TRUE], buffer |-> <<>>,
         reader |-> [state |-> h, pos |-> 0]]

\* the output byte an XOF state h yields at stream position p
squeeze(h, p) == [seed |-> h, at |-> p]

\* XofReader::read of n bytes: the bytes at the next n positions; the reader
\* moves on and never yields a position again
XofReader_read(rd, n) ==
    [reader |-> [rd EXCEPT !.pos = @ + n],
     bytes |-> [k \in 1 .. n |-> squeeze(rd.state, rd.pos + k)]]

\* no digest / no reader produced by the last operation
NoOutput == <<>>
NoReader == [state |-> <<>>, pos |-> 0]

\* ------------------------------------------- CoreWrapper (core_api.rs)
\* an adapter value x is [core, buffer, obj, calls]: the two owned parts, the
\* name the adapter goes by in the call log and the calls made so far by the
\* running operation
Adapter(core, buffer, obj, calls) ==
    [core |-> core, buffer |-> buffer, obj |-> obj, calls |-> calls]

\* #[derive(Default)]
CoreWrapper_default(obj) ==
    Adapter(Core_default, Buffer_default, obj, <<Call(obj, "default", <<>>)>>)

\* #[derive(Clone)]: deep copy of both owned parts
CoreWrapper_clone(x, obj, calls) == Adapter(x.core, x.buffer, obj, calls)

\* feed the block consumer's successive arguments to core.update_blocks
RECURSIVE FeedCore(_, _)
FeedCore(x, fcalls) ==
    IF fcalls = <<>> THEN x
    ELSE FeedCore([x EXCEPT !.core = update_blocks(@, Head(fcalls)),
                            !.calls = Append(@, Call(x.obj, "update_blocks",
                                                     Head(fcalls)))],
                  Tail(fcalls))

\* reset that forgets the core
CoreWrapper_reset_buffer_only(x) ==
    [x EXCEPT !.buffer = Buffer_reset(@),
              !.calls = @ \o <<Call(x.obj, "buffer.reset", <<>>)>>]

\* reset that forgets the buffer
CoreWrapper_reset_core_only(x) ==
    [x EXCEPT !.core = Core_reset(@),
              !.calls = @ \o <<Call(x.obj, "core.reset", <<>>)>>]

\* reset that resets the buffer before the core
CoreWrapper_reset_swapped(x) ==
    [x EXCEPT !.core = Core_reset(@),
              !.buffer = Buffer_reset(@),
              !.calls = @ \o <<Call(x.obj, "buffer.reset", <<>>),
                               Call(x.obj, "core.reset", <<>>)>>]

CoreWrapper_reset(x) ==
    [x EXCEPT !.core = Core_reset(@),
              !.buffer = Buffer_reset(@),
              !.calls = @ \o <<Call(x.obj, "core.reset", <<>>),
                               Call(x.obj, "buffer.reset", <<>>)>>]

\* update that forgets the block completed from the buffered bytes
CoreWrapper_update_skip_first(x, input) ==
    LET ib == input_blocks(x.buffer, input)
    IN  FeedCore([x EXCEPT !.buffer = ib.buffer],
                 IF Len(ib.fcalls) > 1 THEN Tail(ib.fcalls) ELSE ib.fcalls)

\* update that hands the blocks to the core in reverse order
CoreWrapper_update_reorder(x, input) ==
    LET ib == input_blocks(x.buffer, input)
        rev(bs) == [k \in 1 .. Len(bs) |-> bs[Len(bs) + 1 - k]]
    IN  FeedCore([x EXCEPT !.buffer = ib.buffer],
                 [k \in 1 .. Len(ib.fcalls) |-> rev(ib.fcalls[k])])

\* update that appends to the buffer without draining whole blocks
CoreWrapper_update_nodrain(x, input) ==
    [x EXCEPT !.buffer = @ \o input]

\* update that flushes the buffered bytes to the core on an empty input
CoreWrapper_update_flush_on_empty(x, input) ==
    LET ib == input_blocks(x.buffer, input)
    IN  IF input = <<>> /\ x.buffer # <<>>
        THEN FeedCore([x EXCEPT !.buffer = <<>>], <<<<x.buffer>>>>)
        ELSE FeedCore([x EXCEPT !.buffer = ib.buffer], ib.fcalls)

\* update that keeps a block that is exactly completed in the buffer
CoreWrapper_update_hold_full(x, input) ==
    LET ib == input_blocks(x.buffer, input)
    IN  IF Len(x.buffer) + Len(input) = BlockLen
        THEN [x EXCEPT !.buffer = @ \o input]
        ELSE FeedCore([x EXCEPT !.buffer = ib.buffer], ib.fcalls)

\* update that compresses a zero block when it is given no bytes
CoreWrapper_update_block_on_empty(x, input) ==
    LET ib == input_blocks(x.buffer, input)
    IN  IF input = <<>>
        THEN FeedCore(x, <<<<[k \in 1 .. BlockLen |-> 0]>>>>)
        ELSE FeedCore([x EXCEPT !.buffer = ib.buffer], ib.fcalls)

\* update that holds the last whole block back until more input arrives
CoreWrapper_update_lazy(x, input) ==
    LET total == x.buffer \o input
        n == Len(total)
    IN  IF n > 0 /\ n % BlockLen = 0
        THEN FeedCore([x EXCEPT !.buffer = Drop(total, n - BlockLen)],
                      <<chunks_exact(Take(total, n - BlockLen))>>)
        ELSE FeedCore([x EXCEPT !.buffer = remainder(total)],
                      <<chunks_exact(total)>>)

CoreWrapper_update(x, input) ==
    LET ib == input_blocks(x.buffer, input)
    IN  FeedCore([x EXCEPT !.buffer = ib.buffer], ib.fcalls)

\* FixedOutput::finalize_into: consumes the adapter
CoreWrapper_finalize_into(x) ==
    LET f == finalize_fixed_core(x.core, x.buffer)
    IN  [x |-> [x EXCEPT !.core = f.core, !.buffer = f.buffer,
                         !.calls = Append(@, Call(x.obj, "finalize", <<>>))],
         out |-> f.out]

\* finalize_into_reset that resets before the core finalize
CoreWrapper_finalize_into_reset_early(x) ==
    LET y == CoreWrapper_reset(x)
        f == finalize_fixed_core(y.core, y.buffer)
    IN  [x |-> [y EXCEPT !.core = Core_reset(f.core), !.buffer = f.buffer,
                         !.calls = Append(@, Call(x.obj, "finalize", <<>>))],
         out |-> f.out]

\* finalize_into_reset that leaves out the reset
CoreWrapper_finalize_into_reset_dirty(x) ==
    LET f == finalize_fixed_core(x.core, x.buffer)
    IN  [x |-> [x EXCEPT !.core = f.core, !.buffer = f.buffer,
                         !.calls = Append(@, Call(x.obj, "finalize", <<>>))],
         out |-> f.out]

\* FixedOutput::finalize_into_reset: finalize in place, then self.reset()
CoreWrapper_finalize_into_reset(x) ==
    LET f == finalize_fixed_core(x.core, x.buffer)
        y == [x EXCEPT !.core = f.core, !.buffer = f.buffer,
                       !.calls = Append(@, Call(x.obj, "finalize", <<>>))]
    IN  [x |-> CoreWrapper_reset(y), out |-> f.out]

\* ExtendableOutput::finalize_xof: consumes the adapter
CoreWrapper_finalize_xof(x) ==
    LET f == finalize_xof_core(x.core, x.buffer)
    IN  [x |-> [x EXCEPT !.core = f.core, !.buffer = f.buffer,
                         !.calls = Append(@, Call(x.obj, "finalize", <<>>))],
         reader |-> f.reader]

\* finalize_xof_reset that resets before the core finalize
CoreWrapper_finalize_xof_reset_early(x) ==
    LET y == CoreWrapper_reset(x)
        f == finalize_xof_core(y.core, y.buffer)
    IN  [x |-> [y EXCEPT !.core = Core_reset(f.core), !.buffer = f.buffer,
                         !.calls = Append(@, Call(x.obj, "finalize", <<>>))],
         reader |-> f.reader]

\* ExtendableOutput::finalize_xof_reset
CoreWrapper_finalize_xof_reset(x) ==
    LET f == finalize_xof_core(x.core, x.buffer)
        y == [x EXCEPT !.core = f.core, !.buffer = f.buffer,
                       !.calls = Append(@, Call(x.obj, "finalize", <<>>))]
    IN  [x |-> CoreWrapper_reset(y), reader |-> f.reader]

\* io::Result: Ok(n) of write, Ok(()) of flush (n = 0)
Ok(n) == [tag |-> "ok", n |-> n]
NoRet == [tag |-> "none", n |-> 0]

\* write that takes one block at most and reports a short write
CoreWrapper_write_short(x, buf) ==
    LET n == IF Len(buf) < BlockLen THEN Len(buf) ELSE BlockLen
    IN  [x |-> CoreWrapper_update(x, Take(buf, n)), ret |-> Ok(n)]

\* io::Write::write: update with buf, Ok(buf.len())
CoreWrapper_write(x, buf) ==
    [x |-> CoreWrapper_update(x, buf), ret |-> Ok(Len(buf))]

\* io::Write::flush: Ok(())
CoreWrapper_flush(x) == [x |-> x, ret |-> Ok(0)]

\* --------------------------------------------- CoreWrapper (wrapper.rs)
DirtyWrapper_reset(x) ==
    [x EXCEPT !.core = Core_reset(@),
              !.buffer = Buffer_reset(@),
              !.calls = @ \o <<Call(x.obj, "core.reset", <<>>),
                               Call(x.obj, "buffer.reset", <<>>)>>]

DirtyWrapper_update(x, input) ==
    LET ib == input_blocks(x.buffer, input)
    IN  FeedCore([x EXCEPT !.buffer = ib.buffer], ib.fcalls)

DirtyWrapper_finalize_into(x) ==
    LET f == finalize_into_dirty_core(x.core, x.buffer)
    IN  [x |-> [x EXCEPT !.core = f.core, !.buffer = f.buffer,
                         !.calls = Append(@, Call(x.obj, "finalize", <<>>))],
         out |-> f.out]

DirtyWrapper_finalize_into_reset(x) ==
    LET f == finalize_into_dirty_core(x.core, x.buffer)
        y == [x EXCEPT !.core = f.core, !.buffer = f.buffer,
                       !.calls = Append(@, Call(x.obj, "finalize", <<>>))]
    IN  [x |-> DirtyWrapper_reset(y), out |-> f.out]

DirtyWrapper_finalize_xof(x) ==
    LET f == finalize_xof_dirty_core(x.core, x.buffer)
    IN  [x |-> [x EXCEPT !.core = f.core, !.buffer = f.buffer,
                         !.calls = Append(@, Call(x.obj, "finalize", <<>>))],
         reader |-> f.reader]

DirtyWrapper_finalize_xof_reset(x) ==
    LET f == finalize_xof_dirty_core(x.core, x.buffer)
        y == [x EXCEPT !.core = f.core, !.buffer = f.buffer,
                       !.calls = Append(@, Call(x.obj, "finalize", <<>>))]
    IN  [x |-> DirtyWrapper_reset(y), reader |-> f.reader]

DirtyWrapper_write(x, buf) ==
    [x |-> DirtyWrapper_update(x, buf), ret |-> Ok(Len(buf))]

DirtyWrapper_flush(x) == [x |-> x, ret |-> Ok(0)]

\* ------------------------------------ trait dispatch on the adapter type
Write_write(i, x, buf) ==
    IF i = "core_api" THEN CoreWrapper_write(x, buf)
    ELSE DirtyWrapper_write(x, buf)

Write_flush(i, x) ==
    IF i = "core_api" THEN CoreWrapper_flush(x) ELSE DirtyWrapper_flush(x)

Default_default(i, obj) == CoreWrapper_default(obj)

Clone_clone(i, x, obj) ==
    CoreWrapper_clone(x, obj, Append(x.calls, Call(x.obj, "clone", <<>>)))

Reset_reset(i, x) ==
    IF i = "core_api" THEN CoreWrapper_reset(x) ELSE DirtyWrapper_reset(x)

Update_update(i, x, input) ==
    IF i = "core_api" THEN CoreWrapper_update(x, input)
    ELSE DirtyWrapper_update(x, input)

FixedOutput_finalize_into(i, x) ==
    IF i = "core_api" THEN CoreWrapper_finalize_into(x)
    ELSE DirtyWrapper_finalize_into(x)

FixedOutput_finalize_into_reset(i, x) ==
    IF i = "core_api" THEN CoreWrapper_finalize_into_reset(x)
    ELSE DirtyWrapper_finalize_into_reset(x)

ExtendableOutput_finalize_xof(i, x) ==
    IF i = "core_api" THEN CoreWrapper_finalize_xof(x)
    ELSE DirtyWrapper_finalize_xof(x)

ExtendableOutput_finalize_xof_reset(i, x) ==
    IF i = "core_api" THEN CoreWrapper_finalize_xof_reset(x)
    ELSE DirtyWrapper_finalize_xof_reset(x)

\* FixedOutput::finalize_fixed: finalize_into a default output array
FixedOutput_finalize_fixed(i, x) == FixedOutput_finalize_into(i, x)

\* ------------------------------------------------- Digest facade (digest.rs)
Digest_new(i, obj) == Default_default(i, obj)

Digest_update(i, x, data) == Update_update(i, x, data)

\* chain that updates a copy and returns the original
Digest_chain_copy(i, x, data) ==
    [x EXCEPT !.calls = Update_update(i, x, data).calls]

Digest_chain(i, x, data) == Update_update(i, x, data)

Digest_finalize(i, x) == FixedOutput_finalize_fixed(i, x)

\* finalize_reset that resets the original before it is cloned
Digest_finalize_reset_early(i, x) ==
    LET y == Reset_reset(i, x)
        res == FixedOutput_finalize_fixed(i, Clone_clone(i, y, "clone"))
    IN  [x |-> [y EXCEPT !.calls = res.x.calls], out |-> res.out]

\* finalize_reset that finalizes the original in place
Digest_finalize_reset_inplace(i, x) == FixedOutput_finalize_into_reset(i, x)

\* clone, finalize the clone, reset the original
Digest_finalize_reset(i, x) ==
    LET res == FixedOutput_finalize_fixed(i, Clone_clone(i, x, "clone"))
    IN  [x |-> Reset_reset(i, [x EXCEPT !.calls = res.x.calls]),
         out |-> res.out]

Digest_reset(i, x) == Reset_reset(i, x)

\* construct, update once, finalize
Digest_digest(i, data) ==
    LET hasher0 == Default_default(i, "local")
    IN  FixedOutput_finalize_fixed(i, Update_update(i, hasher0, data))

\* ------------------------------------------------------------------ state
VARIABLES
    hasher,   \* per implementation: the adapter [core, buffer]
    live,     \* FALSE once the adapter was consumed by a by-value finalize
    out,      \* per implementation: digest returned by the last operation
    reader,   \* per implementation: XOF reader returned by the last operation
    calls,    \* per implementation: core/buffer calls of the last operation
    msg,      \* update inputs since construction or the last reset
    fed,      \* per implementation: blocks given to update_blocks since then
    op,       \* name of the last operation
    arglen,   \* length of the input of the last operation
    prevlen,  \* length of msg when the last operation began
    held,     \* per implementation: a reader the caller has kept
    ret       \* per implementation: io::Result of the last operation

vars ==
    <<hasher, live, out, reader, calls, msg, fed, op, arglen, prevlen, held,
      ret>>

State(x) == [core |-> x.core, buffer |-> x.buffer]

\* the adapter of implementation i at the start of an operation
Self(i) == Adapter(hasher[i].core, hasher[i].buffer, "self", <<>>)

\* blocks given to the adapter's own core by a call sequence, after `f`
RECURSIVE Fed(_, _)
Fed(f, cs) ==
    IF cs = <<>> THEN f
    ELSE LET c == Head(cs)
         IN  Fed(IF c.obj # "self" THEN f
                 ELSE IF c.fn = "update_blocks" THEN f \o c.blocks
                 ELSE IF c.fn \in {"core.reset", "default"} THEN <<>>
                 ELSE f,
                 Tail(cs))

\* a reader that borrows the core of the adapter that produced it
Reader_after_borrowed(rd, x) ==
    IF rd = NoReader THEN rd ELSE [rd EXCEPT !.state = x.core.h]

\* a reader kept by the caller, after an operation that left its adapter as
\* x: Reader is an owned value without a borrow of the core
Reader_after(rd, x) == rd

\* bytes of the message behind a reader
Absorbed(rd) ==
    IF rd.state = <<>> THEN 0 ELSE Len(Flatten(rd.state)) - 1

\* bytes the kept readers and the running message hold together
Budget == Len(msg) + Absorbed(held["core_api"])

NoRets == [i \in Impl |-> NoRet]

\* r[i] is the adapter after the operation, rt the io::Result it returned
CommitRet(r, o, rd, name, a, m, l, rt) ==
    /\ hasher' = [i \in Impl |-> State(r[i])]
    /\ calls' = [i \in Impl |-> r[i].calls]
    /\ fed' = [i \in Impl |-> Fed(fed[i], r[i].calls)]
    /\ out' = o
    /\ reader' = rd
    /\ op' = name
    /\ arglen' = a
    /\ prevlen' = Len(msg)
    /\ held' = [i \in Impl |-> Reader_after(held[i], r[i])]
    /\ msg' = m
    /\ live' = l
    /\ ret' = rt

Commit(r, o, rd, name, a, m, l) ==
    CommitRet(r, o, rd, name, a, m, l, NoRets)

None == [i \in Impl |-> NoOutput]
NoReaders == [i \in Impl |-> NoReader]

Init ==
    /\ hasher = [i \in Impl |-> State(Digest_new(i, "self"))]
    /\ live = TRUE
    /\ out = None
    /\ reader = NoReaders
    /\ calls = [i \in Impl |-> Digest_new(i, "self").calls]
    /\ msg = <<>>
    /\ fed = [i \in Impl |-> <<>>]
    /\ op = "new"
    /\ arglen = 0
    /\ prevlen = 0
    /\ held = NoReaders
    /\ ret = NoRets

\* Digest::new / Default::default after the adapter was consumed
New ==
    /\ ~live
    /\ LET r == [i \in Impl |-> Digest_new(i, "self")]
       IN  Commit(r, None, NoReaders, "new", 0, <<>>, TRUE)

Update(input) ==
    /\ live
    /\ Budget + Len(input) <= MaxMsgLen
    /\ LET r == [i \in Impl |-> Digest_update(i, Self(i), input)]
       IN  Commit(r, None, NoReaders, "update", Len(input), msg \o input, TRUE)

Chain(input) ==
    /\ live
    /\ Budget + Len(input) <= MaxMsgLen
    /\ LET r == [i \in Impl |-> Digest_chain(i, Self(i), input)]
       IN  Commit(r, None, NoReaders, "chain", Len(input), msg \o input, TRUE)

\* io::Write::write
Write(buf) ==
    /\ live
    /\ Budget + Len(buf) <= MaxMsgLen
    /\ LET r == [i \in Impl |-> Write_write(i, Self(i), buf)]
       IN  CommitRet([i \in Impl |-> r[i].x], None, NoReaders, "write",
                     Len(buf), msg \o buf, TRUE, [i \in Impl |-> r[i].ret])

\* io::Write::flush
Flush ==
    /\ live
    /\ LET r == [i \in Impl |-> Write_flush(i, Self(i))]
       IN  CommitRet([i \in Impl |-> r[i].x], None, NoReaders, "flush", 0,
                     msg, TRUE, [i \in Impl |-> r[i].ret])

Clone ==
    /\ live
    /\ LET r == [i \in Impl |-> Clone_clone(i, Self(i), "self")]
       IN  Commit(r, None, NoReaders, "clone", 0, msg, TRUE)

Reset ==
    /\ live
    /\ LET r == [i \in Impl |-> Digest_reset(i, Self(i))]
       IN  Commit(r, None, NoReaders, "reset", 0, <<>>, TRUE)

Finalize ==
    /\ live
    /\ LET r == [i \in Impl |-> Digest_finalize(i, Self(i))]
       IN  Commit([i \in Impl |-> r[i].x], [i \in Impl |-> r[i].out],
                  NoReaders, "finalize", 0, msg, FALSE)

FinalizeReset ==
    /\ live
    /\ LET r == [i \in Impl |-> Digest_finalize_reset(i, Self(i))]
       IN  Commit([i \in Impl |-> r[i].x], [i \in Impl |-> r[i].out],
                  NoReaders, "finalize_reset", 0, <<>>, TRUE)

FinalizeIntoReset ==
    /\ live
    /\ LET r == [i \in Impl |-> FixedOutput_finalize_into_reset(i, Self(i))]
       IN  Commit([i \in Impl |-> r[i].x], [i \in Impl |-> r[i].out],
                  NoReaders, "finalize_into_reset", 0, <<>>, TRUE)

FinalizeXof ==
    /\ live
    /\ LET r == [i \in Impl |-> ExtendableOutput_finalize_xof(i, Self(i))]
       IN  Commit([i \in Impl |-> r[i].x], None,
                  [i \in Impl |-> r[i].reader], "finalize_xof", 0, msg,
                  FALSE)

FinalizeXofReset ==
    /\ live
    /\ LET r == [i \in Impl |-> ExtendableOutput_finalize_xof_reset(i, Self(i))]
       IN  Commit([i \in Impl |-> r[i].x], None,
                  [i \in Impl |-> r[i].reader], "finalize_xof_reset", 0,
                  <<>>, TRUE)

\* Digest::digest(data): static, works on a hasher of its own and does not
\* touch the adapter; explored next to adapters that have absorbed nothing
DigestData(data) ==
    /\ msg = <<>>
    /\ LET r == [i \in Impl |-> Digest_digest(i, data)]
       IN  /\ out' = [i \in Impl |-> r[i].out]
           /\ calls' = [i \in Impl |-> r[i].x.calls]
    /\ reader' = NoReaders
    /\ op' = "digest"
    /\ arglen' = Len(data)
    /\ prevlen' = Len(msg)
    /\ ret' = NoRets
    /\ UNCHANGED <<hasher, live, msg, fed, held>>

Next ==
    \/ New
    \/ \E input \in Inputs : Update(input)
    \/ \E input \in Inputs : Chain(input)
    \/ \E buf \in Inputs : Write(buf)
    \/ Flush
    \/ Clone
    \/ Reset
    \/ Finalize
    \/ FinalizeReset
    \/ FinalizeIntoReset
    \/ FinalizeXof
    \/ FinalizeXofReset
    \/ \E data \in Inputs : DigestData(data)

Spec == Init /\ [][Next]_vars

\* the caller keeps the reader finalize_xof_reset returned
Hold ==
    /\ op = "finalize_xof_reset"
    /\ held # reader
    /\ held' = reader
    /\ op' = "hold"
    /\ UNCHANGED <<hasher, live, out, reader, calls, msg, fed, arglen, prevlen,
                   ret>>

\* XofReader::read of n bytes from the kept reader
Read(n) ==
    /\ \A i \in Impl : held[i] # NoReader /\ held[i].pos + n <= MaxRead
    /\ held' = [i \in Impl |-> XofReader_read(held[i], n).reader]
    /\ op' = "read"
    /\ UNCHANGED <<hasher, live, out, reader, calls, msg, fed, arglen,
                   prevlen, ret>>

\* the adapter's operations next to a reader that outlives them
NextXof ==
    \/ New
    \/ \E input \in Inputs : Update(input)
    \/ Reset
    \/ Finalize
    \/ FinalizeReset
    \/ FinalizeIntoReset
    \/ FinalizeXof
    \/ FinalizeXofReset
    \/ Hold
    \/ \E n \in 1 .. MaxRead : Read(n)

SpecXof == Init /\ [][NextXof]_vars

TypeOK ==
    /\ live \in BOOLEAN
    /\ msg \in Seq(Byte)
    /\ \A i \in Impl : hasher[i].core.dirty \in BOOLEAN

\* ---------------------------------------------------------------- claims

\* C1: incremental equivalence: whatever the chunks the message was fed in,
\* finalizing yields the digest that Digest::digest gives for the whole
\* message in a single update.
C1_IncrementalEquivalence ==
    op = "finalize" => \A i \in Impl : out[i] = Digest_digest(i, msg).out

\* a message longer than any single input, finalized: it came in several
\* chunks, and crossed a block boundary
C1_Witness ==
    /\ op = "finalize"
    /\ Len(msg) > MaxInputLen
    /\ \A i \in Impl : Len(out[i]) > 2 /\ Len(out[i][Len(out[i])]) > 1

\* C2: no byte is lost, duplicated or reordered: the blocks given to
\* update_blocks, in order, followed by the buffered bytes, are the update
\* inputs in call order.
C2_NoByteLost ==
    live => \A i \in Impl : Flatten(fed[i]) \o hasher[i].buffer = msg

C2_Witness ==
    /\ live
    /\ op = "update"
    /\ \A i \in Impl : Len(fed[i]) >= 2 /\ hasher[i].buffer # <<>>
                       /\ Len(calls[i]) = 2

\* C3: between two operations the buffer holds strictly fewer bytes than one
\* block.
C3_BufferBelowBlock ==
    \A i \in Impl : Len(hasher[i].buffer) < BlockLen

C3_Witness ==
    /\ op = "update"
    /\ arglen >= 2 * BlockLen
    /\ \A i \in Impl : Len(hasher[i].buffer) = BlockLen - 1

\* the construction-time adapter of implementation i
Fresh(i) == State(Digest_new(i, "self"))

\* C4: Digest::finalize_reset returns what finalize gives on a clone of the
\* adapter taken just before the call, and leaves the adapter in the state
\* of a freshly constructed one.
C4_FinalizeResetFacade ==
    [][op' = "finalize_reset" =>
          \A i \in Impl :
              /\ out'[i] = Digest_finalize(i, Clone_clone(i, Self(i), "clone")).out
              /\ hasher'[i] = Fresh(i)]_vars

C4_Witness ==
    /\ op = "finalize_reset"
    /\ prevlen > BlockLen
    /\ \A i \in Impl : /\ Len(out[i]) >= 2
                       /\ Len(out[i][Len(out[i])]) > 1
                       /\ hasher[i] = Fresh(i)

\* C5: finalize_into_reset writes the digest the consuming finalize_into
\* would give from the same adapter state, and leaves core and buffer in
\* their construction-time state.
C5_FinalizeIntoReset ==
    [][op' = "finalize_into_reset" =>
          \A i \in Impl :
              /\ out'[i] = FixedOutput_finalize_into(i, Self(i)).out
              /\ hasher'[i] = Fresh(i)]_vars

C5_Witness ==
    /\ op = "finalize_into_reset"
    /\ prevlen > BlockLen
    /\ \A i \in Impl : /\ Len(out[i]) >= 2
                       /\ Len(out[i][Len(out[i])]) > 1
                       /\ hasher[i] = Fresh(i)

\* C6: the dirty state is never observable: between two operations the core
\* of a live adapter is clean.
C6_DirtyNeverObservable ==
    live => \A i \in Impl : ~hasher[i].core.dirty

\* a non-consuming finalize made the core dirty and reset it before returning
C6_Witness ==
    /\ live
    /\ op \in {"finalize_into_reset", "finalize_xof_reset"}
    /\ prevlen > 0
    /\ \A i \in Impl : /\ ~hasher[i].core.dirty
                       /\ calls[i][1].fn = "finalize"
                       /\ calls[i][2].fn = "core.reset"

\* walking the calls cs made on adapter obj, whose core starts dirty iff d:
\* is a finalize or an update_blocks made on a dirty core?
RECURSIVE OnDirtyCore(_, _, _)
OnDirtyCore(d, cs, obj) ==
    IF cs = <<>> THEN FALSE
    ELSE LET c == Head(cs)
         IN  IF c.obj # obj THEN OnDirtyCore(d, Tail(cs), obj)
             ELSE IF c.fn \in {"finalize", "update_blocks"}
                  THEN d \/ OnDirtyCore(c.fn = "finalize", Tail(cs), obj)
             ELSE IF c.fn \in {"core.reset", "default"}
                  THEN OnDirtyCore(FALSE, Tail(cs), obj)
             ELSE OnDirtyCore(d, Tail(cs), obj)

\* C7: finalization happens once per message: no core is finalized twice
\* without a reset in between, and no update_blocks reaches a core between
\* its finalize and its next reset.
C7_FinalizeOnce ==
    [][\A i \in Impl : \A obj \in {"self", "clone", "local"} :
          ~OnDirtyCore(hasher[i].core.dirty, calls'[i], obj)]_vars

\* an in-place finalize of a message of several blocks: the core finalize is
\* followed by the core reset within the operation
C7_Witness ==
    /\ op \in {"finalize_into_reset", "finalize_xof_reset"}
    /\ prevlen > BlockLen
    /\ \A i \in Impl : /\ calls[i][1].fn = "finalize"
                       /\ calls[i][2].fn = "core.reset"
                       /\ hasher[i] = Fresh(i)

\* C8: update with an empty input changes neither the core nor the buffer and
\* hands no block to update_blocks.
C8_EmptyUpdateNoOp ==
    [][(op' = "update" /\ arglen' = 0) =>
          /\ hasher' = hasher
          /\ \A i \in Impl : \A k \in 1 .. Len(calls'[i]) :
                 ~(calls'[i][k].fn = "update_blocks"
                   /\ calls'[i][k].blocks # <<>>)]_vars

C8_Witness ==
    /\ op = "update"
    /\ arglen = 0
    /\ \A i \in Impl : hasher[i].buffer # <<>> /\ hasher[i].core.h # <<>>

\* C9: reset restores core and buffer to their construction-time state.
C9_ResetRestores ==
    op = "reset" => \A i \in Impl : hasher[i] = Fresh(i) /\ fed[i] = <<>>

\* a reset that abandoned a message with absorbed blocks and a buffered tail
C9_Witness ==
    /\ op = "reset"
    /\ prevlen > BlockLen
    /\ prevlen % BlockLen # 0
    /\ \A i \in Impl : hasher[i] = Fresh(i)

\* the digest of message m over the chaining core: its whole blocks, then
\* the padded rest
RefDigest(m) ==
    LET n == Len(m) \div BlockLen
    IN  [k \in 1 .. n |-> SubSeq(m, (k - 1) * BlockLen + 1, k * BlockLen)]
        \o <<SubSeq(m, n * BlockLen + 1, Len(m)) \o <<PadByte>>>>

\* messages of one byte less than, exactly, and one byte more than a block
BoundaryMsgs ==
    {m \in SeqsUpTo(BlockLen + 1) : Len(m) >= BlockLen - 1}

\* C10: at the block edges (BlockLen - 1, BlockLen, BlockLen + 1 bytes) the
\* finalized digest is the correct one for the input and differs from the
\* digest of every other input of those three lengths.
C10_BlockEdges ==
    (op = "finalize" /\ msg \in BoundaryMsgs) =>
        \A i \in Impl :
            /\ out[i] = RefDigest(msg)
            /\ \A m \in BoundaryMsgs :
                   m # msg => Digest_digest(i, m).out # out[i]

C10_Witness ==
    /\ op = "finalize"
    /\ Len(msg) = BlockLen
    /\ \A i \in Impl : out[i] = <<msg, <<PadByte>>>>

\* C11: empty-input determinism: Digest::digest of the empty input and
\* finalize of an adapter that absorbed no byte both succeed with one and the
\* same constant, the digest of the empty message.
C11_EmptyInput ==
    ((op = "finalize" /\ msg = <<>>) \/ (op = "digest" /\ arglen = 0)) =>
        \A i \in Impl : out[i] = <<<<PadByte>>>>

\* finalize right after construction
C11_Witness ==
    /\ op = "finalize"
    /\ msg = <<>>
    /\ prevlen = 0
    /\ ~live
    /\ \A i \in Impl : out[i] = Digest_digest(i, <<>>).out

\* the first n bytes a reader yields
Stream(rd, n) == XofReader_read(rd, n).bytes

\* C12: XOF determinism: whatever the chunks the input came in, the reader
\* of finalize_xof yields, up to any length, the bytes yielded by the reader
\* of a fresh adapter given the same input in one update.
C12_XofDeterminism ==
    op = "finalize_xof" =>
        \A i \in Impl : \A n \in 0 .. MaxRead :
            Stream(reader[i], n) =
                Stream(ExtendableOutput_finalize_xof(i,
                           Update_update(i, Default_default(i, "local"),
                                         msg)).reader, n)

\* a reader of a message that came in several chunks
C12_Witness ==
    /\ op = "finalize_xof"
    /\ Len(msg) > MaxInputLen
    /\ \A i \in Impl : /\ Len(reader[i].state) > 2
                       /\ Len(Stream(reader[i], MaxRead)) = MaxRead

\* C14: finalize_xof_reset returns a reader yielding the stream finalize_xof
\* gives on a clone of the adapter taken just before the call, and leaves
\* core and buffer in their construction-time state.
C14_XofResetDuality ==
    [][op' = "finalize_xof_reset" =>
          \A i \in Impl :
              /\ \A n \in 0 .. MaxRead :
                     Stream(reader'[i], n) =
                         Stream(ExtendableOutput_finalize_xof(i,
                                    Clone_clone(i, Self(i), "clone")).reader,
                                n)
              /\ hasher'[i] = Fresh(i)]_vars

C14_Witness ==
    /\ op = "finalize_xof_reset"
    /\ prevlen > BlockLen
    /\ prevlen % BlockLen # 0
    /\ \A i \in Impl : /\ Len(reader[i].state) >= 2
                       /\ Len(reader[i].state[Len(reader[i].state)]) > 1
                       /\ hasher[i] = Fresh(i)

\* the byte a reader yields at stream position p, ahead of its position
Yield(rd, p) == XofReader_read(rd, p - rd.pos).bytes[p - rd.pos]

C15_WriteAlwaysOk ==
    [][/\ op' = "write" =>
              \A i \in Impl :
                  /\ ret'[i] = Ok(arglen')
                  /\ \E buf \in Inputs :
                         /\ Len(buf) = arglen'
                         /\ msg' = msg \o buf
                         /\ hasher'[i] = State(Update_update(i, Self(i), buf))
       /\ op' = "flush" =>
              \A i \in Impl : ret'[i].tag = "ok" /\ hasher'[i] = hasher[i]
      ]_vars

\* a write of several blocks onto a buffered byte
C15_Witness ==
    /\ op = "write"
    /\ arglen >= 2 * BlockLen
    /\ prevlen % BlockLen # 0
    /\ \A i \in Impl : ret[i] = Ok(arglen) /\ Len(fed[i]) >= 2

\* C16: facade one-shot equivalence: chain(data) leaves the adapter in the
\* state update(data) leaves it in, and finalize(chain(new(), data)) is the
\* digest Digest::digest(data) returns.
C16_OneShot ==
    [][op' = "chain" =>
          \A i \in Impl : \E data \in Inputs :
              /\ Len(data) = arglen'
              /\ msg' = msg \o data
              /\ hasher'[i] = State(Digest_update(i, Self(i), data))
              /\ hasher[i] = Fresh(i) =>
                     Digest_finalize(i, Adapter(hasher'[i].core,
                                                hasher'[i].buffer, "self",
                                                <<>>)).out
                         = Digest_digest(i, data).out]_vars

\* chain of more than a block on a new adapter
C16_Witness ==
    /\ op = "chain"
    /\ prevlen = 0
    /\ arglen > BlockLen
    /\ arglen % BlockLen # 0
    /\ \A i \in Impl : /\ hasher[i].buffer # <<>>
                       /\ Flatten(hasher[i].core.h) \o hasher[i].buffer = msg

\* C17: eager draining: after updates of n bytes in all, the core has been
\* given floor(n / BlockLen) whole blocks and the buffer holds n mod BlockLen
\* bytes; a block that is completed exactly is handed over at once.
C17_EagerDraining ==
    live =>
        \A i \in Impl :
            /\ Len(fed[i]) = Len(msg) \div BlockLen
            /\ \A k \in 1 .. Len(fed[i]) : Len(fed[i][k]) = BlockLen
            /\ Len(hasher[i].buffer) = Len(msg) % BlockLen

\* an update that completed the buffered bytes to exactly a whole block
C17_Witness ==
    /\ live
    /\ op = "update"
    /\ prevlen % BlockLen # 0
    /\ Len(msg) >= 2 * BlockLen
    /\ Len(msg) % BlockLen = 0
    /\ \A i \in Impl : /\ hasher[i].buffer = <<>>
                       /\ Len(fed[i]) = Len(msg) \div BlockLen

\* C18: the two adapter implementations are equivalent: driven by the same
\* operations they make the same core and buffer calls in the same order,
\* return the same outputs and are left in the same state.
C18_ImplsEquivalent ==
    /\ calls["core_api"] = calls["wrapper"]
    /\ out["core_api"] = out["wrapper"]
    /\ reader["core_api"] = reader["wrapper"]
    /\ ret["core_api"] = ret["wrapper"]
    /\ hasher["core_api"] = hasher["wrapper"]

\* both ran finalize_xof_reset on a message of several blocks and a tail
C18_Witness ==
    /\ op = "finalize_xof_reset"
    /\ prevlen > BlockLen
    /\ prevlen % BlockLen # 0
    /\ Len(calls["core_api"]) = 3
    /\ calls["core_api"] = calls["wrapper"]
    /\ Len(reader["wrapper"].state) >= 2
    /\ reader["core_api"] = reader["wrapper"]

\* does the call sequence cs finalize the core of the adapter itself?
SelfFinalizes(cs) ==
    \E k \in 1 .. Len(cs) : cs[k].obj = "self" /\ cs[k].fn = "finalize"

\* C19: Digest::finalize_reset and FixedOutput::finalize_into_reset are
\* interchangeable: from the same adapter state they return the same digest
\* and leave the same state, though only finalize_into_reset runs the core
\* finalize on the adapter's own core.
C19_ResetFlavours ==
    [][/\ op' = "finalize_reset" =>
              \A i \in Impl :
                  LET r == FixedOutput_finalize_into_reset(i, Self(i))
                  IN  /\ out'[i] = r.out
                      /\ hasher'[i] = State(r.x)
                      /\ ~SelfFinalizes(calls'[i])
                      /\ SelfFinalizes(r.x.calls)
       /\ op' = "finalize_into_reset" =>
              \A i \in Impl :
                  LET r == Digest_finalize_reset(i, Self(i))
                  IN  /\ out'[i] = r.out
                      /\ hasher'[i] = State(r.x)
                      /\ SelfFinalizes(calls'[i])
                      /\ ~SelfFinalizes(r.x.calls)
      ]_vars

\* finalize_reset of several blocks and a tail: the clone was finalized, the
\* adapter itself only reset
C19_Witness ==
    /\ op = "finalize_reset"
    /\ prevlen > BlockLen
    /\ prevlen % BlockLen # 0
    /\ \A i \in Impl :
           /\ Len(calls[i]) = 4
           /\ calls[i][2] = Call("clone", "finalize", <<>>)
           /\ calls[i][3] = Call("self", "core.reset", <<>>)
           /\ Len(out[i]) >= 2
           /\ hasher[i] = Fresh(i)

====
